---- MODULE Spec2Model ----
(***************************************************************************)
(* Model of mask2former/data/parsing_utils.py: the annotation and label    *)
(* map transforms of the human-parsing data pipeline.                      *)
(*                                                                         *)
(* Every function of the module is a handler of its own; each has its own  *)
(* group of variables (arguments, caller-visible objects, outcome) and its *)
(* own specification.  Variables of the other groups are held at Unused.   *)
(***************************************************************************)
EXTENDS Integers, Sequences, FiniteSets, TLC

VARIABLES
    pc,                 \* "call" before the call, then "returned" or the name of the exception raised
    annotation,         \* transform_parsing_instance_annotations: the caller's dict (mutated in place)
    annotation0,        \* its value before the call
    transforms,         \* the transform list
    image_size,         \* <<height, width>> of the transformed image
    parsing_flip_map,   \* keyword argument: [given |-> BOOLEAN, pairs |-> flip map]
    category,           \* flip_parsing_instance_category: argument
    flip_map,           \* flip map argument of the two category flips
    img, gt,            \* the arrays the caller holds and passes to the next call
    img_arg, gt_arg,    \* contents, after the latest call, of the arrays passed to it
    img_arg0, gt_arg0,  \* contents of the same arrays when that call began
    gt0,                \* the label map the caller started from
    hflips,             \* do_hflip of each call so far, in order
    target_size,        \* <<width, height>>
    person_binary_mask, part_binary_mask,
    result              \* value returned by the latest call

vars == <<pc, annotation, annotation0, transforms, image_size, parsing_flip_map,
          category, flip_map, img, gt, img_arg, gt_arg, img_arg0, gt_arg0, gt0,
          hflips, target_size, person_binary_mask, part_binary_mask, result>>

Unused == <<>>

(***************************************************************************)
(* Bounds                                                                  *)
(***************************************************************************)
MaxLabel == 2        \* category ids and part labels are 0..MaxLabel
MaxPairs == 2        \* longest flip map
MaxTransforms == 2   \* longest transform list
MaxCoord == 3        \* largest box coordinate of an input annotation
MaxSize == 2         \* largest image side of an annotation or flip call
MaxSide == 5         \* largest image and target side of a resize call
MaxMaskPixels == 4   \* most pixels of a binary mask of an IoP call

Labels == 0 .. MaxLabel
Pairs == Labels \X Labels

SeqsUpTo(S, n) == UNION {[1 .. k -> S] : k \in 0 .. n}

FlipMaps == SeqsUpTo(Pairs, MaxPairs)

(***************************************************************************)
(* detectron2 collaborators: BoxMode, Transform, TransformList             *)
(***************************************************************************)
XYXY_ABS == 0
XYWH_ABS == 1

\* BoxMode.convert(box, from_mode, BoxMode.XYXY_ABS)
BoxModeConvert(box, from_mode) ==
    IF from_mode = XYWH_ABS
    THEN <<box[1], box[2], box[1] + box[3], box[2] + box[4]>>
    ELSE box

\* T.HFlipTransform(width): x -> width - x
HFlipTransform(width) == [type |-> "HFlip", width |-> width, x0 |-> 0, y0 |-> 0, w |-> 0, h |-> 0]
\* T.CropTransform(x0, y0, w, h): a transform that is not a flip
CropTransform(x0, y0, w, h) == [type |-> "Crop", width |-> 0, x0 |-> x0, y0 |-> y0, w |-> w, h |-> h]

\* Transform.apply_coords on one point <<x, y>>
ApplyCoords(t, p) ==
    CASE t.type = "HFlip" -> <<t.width - p[1], p[2]>>
      [] t.type = "Crop" -> <<p[1] - t.x0, p[2] - t.y0>>
      [] OTHER -> p

Min2(a, b) == IF a <= b THEN a ELSE b
Max2(a, b) == IF a >= b THEN a ELSE b

\* Transform.apply_box: transform the four corners, take their extent
ApplyBox(t, box) ==
    LET c1 == ApplyCoords(t, <<box[1], box[2]>>)
        c2 == ApplyCoords(t, <<box[3], box[2]>>)
        c3 == ApplyCoords(t, <<box[1], box[4]>>)
        c4 == ApplyCoords(t, <<box[3], box[4]>>)
    IN <<Min2(Min2(c1[1], c2[1]), Min2(c3[1], c4[1])),
         Min2(Min2(c1[2], c2[2]), Min2(c3[2], c4[2])),
         Max2(Max2(c1[1], c2[1]), Max2(c3[1], c4[1])),
         Max2(Max2(c1[2], c2[2]), Max2(c3[2], c4[2]))>>

RECURSIVE TransformListApplyBox(_, _)
\* TransformList.apply_box: each member in order
TransformListApplyBox(ts, box) ==
    IF ts = <<>> THEN box
    ELSE TransformListApplyBox(Tail(ts), ApplyBox(Head(ts), box))

RECURSIVE TransformListApplyCoords(_, _)
TransformListApplyCoords(ts, p) ==
    IF ts = <<>> THEN p
    ELSE TransformListApplyCoords(Tail(ts), ApplyCoords(Head(ts), p))

\* TransformList.apply_polygons on one polygon given as a sequence of points
ApplyPolygon(ts, poly) == [i \in 1 .. Len(poly) |-> TransformListApplyCoords(ts, poly[i])]

RECURSIVE CountHFlip(_)
\* sum(isinstance(t, T.HFlipTransform) for t in transforms.transforms)
CountHFlip(ts) ==
    IF ts = <<>> THEN 0
    ELSE (IF Head(ts).type = "HFlip" THEN 1 ELSE 0) + CountHFlip(Tail(ts))

(***************************************************************************)
(* flip_parsing_instance_category                                          *)
(***************************************************************************)
RECURSIVE FlipCategoryLoop(_, _)
\* the for loop over the pairs: no break, every pair is tried in order
FlipCategoryLoop(cat, fm) ==
    IF fm = <<>> THEN cat
    ELSE LET ori_label == Head(fm)[1]
             new_label == Head(fm)[2]
             next == IF cat = ori_label THEN new_label
                     ELSE IF cat = new_label THEN ori_label
                     ELSE cat
         IN FlipCategoryLoop(next, Tail(fm))

\* the flip decided by the presence of a flip instead of the parity of their number
FlipCategoryOnAnyFlip(cat, ts, fm) ==
    IF CountHFlip(ts) > 0 THEN FlipCategoryLoop(cat, fm) ELSE cat

flip_parsing_instance_category(cat, ts, fm) ==
    LET do_hflip == CountHFlip(ts) % 2 = 1
    IN IF do_hflip THEN FlipCategoryLoop(cat, fm) ELSE cat

(***************************************************************************)
(* numpy arrays: a 2-D array is a sequence of rows                         *)
(***************************************************************************)
Shape(a) == <<Len(a), IF Len(a) = 0 THEN 0 ELSE Len(a[1])>>

\* a[lo:hi] for 0 <= lo, 0 <= hi
PySlice(s, lo, hi) == SubSeq(s, lo + 1, Min2(hi, Len(s)))

\* np.flip(a, axis=1) and a[:, ::-1]
FlipAxis1(a) == [r \in 1 .. Len(a) |-> [c \in 1 .. Len(a[r]) |-> a[r][Len(a[r]) + 1 - c]]]

\* Transform.apply_segmentation / apply_image on a 2-D array
ApplySegmentation(t, a) ==
    CASE t.type = "HFlip" -> FlipAxis1(a)
      [] t.type = "Crop" ->
            LET rows == PySlice(a, t.y0, t.y0 + t.h)
            IN [r \in 1 .. Len(rows) |-> PySlice(rows[r], t.x0, t.x0 + t.w)]
      [] OTHER -> a

RECURSIVE TransformListApplySegmentation(_, _)
TransformListApplySegmentation(ts, a) ==
    IF ts = <<>> THEN a
    ELSE TransformListApplySegmentation(Tail(ts), ApplySegmentation(Head(ts), a))

(***************************************************************************)
(* pycocotools run-length masks: counts are the run lengths of the mask    *)
(* in column-major order, the first run counting zeros                     *)
(***************************************************************************)
RECURSIVE RleBits(_, _)
RleBits(counts, v) ==
    IF counts = <<>> THEN <<>>
    ELSE [i \in 1 .. Head(counts) |-> v] \o RleBits(Tail(counts), 1 - v)

\* mask_util.decode(rle)
RleDecode(rle) ==
    LET h == rle.size[1]
        w == rle.size[2]
        bits == RleBits(rle.counts, 0)
    IN [r \in 1 .. h |-> [c \in 1 .. w |-> bits[(c - 1) * h + r]]]

(***************************************************************************)
(* transform_parsing_instance_annotations                                  *)
(***************************************************************************)
\* names bound at module level: the imports and the functions defined
ModuleGlobals ==
    {"logging", "np", "List", "Union", "mask_util", "torch", "Image",
     "BitMasks", "Boxes", "BoxMode", "Instances", "Keypoints", "PolygonMasks",
     "RotatedBoxes", "polygons_to_bitmask", "T", "MetadataCatalog", "maskUtils",
     "random", "cv2", "__all__",
     "get_parsing_flip_map", "flip_parsing_semantic_category",
     "transform_parsing_instance_annotations", "flip_parsing_instance_category",
     "compute_parsing_IoP", "affine_to_target_size", "get_affine_transform",
     "get_3rd_point", "get_dir", "change_aspect_ratio", "center_to_target_size"}

\* names the function binds itself: its parameters and its assignments
AnnotationLocals ==
    {"annotation", "transforms", "image_size", "parsing_flip_map",
     "bbox", "segm", "polygons", "mask"}

\* the name the RLE branch passes as flip map
RleFlipMapName == "cihp_flip_map"

\* bbox.clip(min=0)
ClipMin0(box) == [i \in 1 .. 4 |-> Max2(box[i], 0)]

Reverse(s) == [i \in 1 .. Len(s) |-> s[Len(s) + 1 - i]]

\* the bounds taken without the [::-1]: (height, width, height, width)
BoxBoundsUnreversed(size) == size \o size

\* list(image_size + image_size)[::-1]
BoxBounds(size) == Reverse(size \o size)

\* np.minimum(bbox, bounds)
Minimum(box, bounds) == [i \in 1 .. 4 |-> Min2(box[i], bounds[i])]

\* lines 81-85: the box written back to the annotation
TransformedBox(ann, ts, size) ==
    Minimum(ClipMin0(TransformListApplyBox(ts, BoxModeConvert(ann.bbox, ann.bbox_mode))),
            BoxBounds(size))

Segmentation(kind, polygons, rle, mask) ==
    [kind |-> kind, polygons |-> polygons, rle |-> rle, mask |-> mask]

NoRle == [size |-> <<0, 0>>, counts |-> <<>>]

\* the category flip of one branch, its flip map read from the name `name`,
\* with the outcome of the call: a NameError when the name is not bound,
\* a TypeError when the flip iterates None
CategoryUpdate(ann, ts, kw, name) ==
    IF name \notin AnnotationLocals \cup ModuleGlobals
    THEN [pc |-> "NameError", ann |-> ann]
    ELSE IF name = "parsing_flip_map" /\ ~kw.given /\ CountHFlip(ts) % 2 = 1
    THEN [pc |-> "TypeError", ann |-> ann]
    ELSE [pc |-> "returned",
          ann |-> [ann EXCEPT !.category_id =
                      flip_parsing_instance_category(ann.category_id, ts, kw.pairs)]]

\* the whole function: the outcome and the annotation it leaves behind
TransformAnnotation(ann, ts, size, kw) ==
    LET a1 == [ann EXCEPT !.bbox = TransformedBox(ann, ts, size), !.bbox_mode = XYXY_ABS]
        segm == ann.segmentation
    IN CASE segm.kind = "absent" -> [pc |-> "returned", ann |-> a1]
         [] segm.kind = "list" ->
               LET polygons == [i \in 1 .. Len(segm.polygons) |->
                                    ApplyPolygon(ts, segm.polygons[i])]
                   a2 == [a1 EXCEPT !.segmentation =
                              Segmentation("list", polygons, NoRle, <<>>)]
               IN CategoryUpdate(a2, ts, kw, "parsing_flip_map")
         [] segm.kind = "dict" ->
               LET mask == TransformListApplySegmentation(ts, RleDecode(segm.rle))
               IN IF Shape(mask) # size
                  THEN [pc |-> "AssertionError", ann |-> a1]
                  ELSE LET a2 == [a1 EXCEPT !.segmentation =
                                      Segmentation("ndarray", <<>>, NoRle, mask)]
                       IN CategoryUpdate(a2, ts, kw, RleFlipMapName)
         [] OTHER -> [pc |-> "ValueError", ann |-> a1]

transform_parsing_instance_annotations ==
    /\ pc = "call"
    /\ LET out == TransformAnnotation(annotation, transforms, image_size, parsing_flip_map)
       IN /\ pc' = out.pc
          /\ annotation' = out.ann
    /\ UNCHANGED <<annotation0, transforms, image_size, parsing_flip_map, category,
                   flip_map, img, gt, img_arg, gt_arg, img_arg0, gt_arg0, gt0, hflips,
                   target_size, person_binary_mask, part_binary_mask, result>>

\* inputs of the annotation calls
SrcSize == <<MaxSize, MaxSize>>
TransformKinds ==
    {HFlipTransform(SrcSize[2]), CropTransform(1, 0, SrcSize[2] - 1, SrcSize[1])}
TransformLists == SeqsUpTo(TransformKinds, MaxTransforms)
Sizes == (1 .. MaxSize) \X (1 .. MaxSize)
BoxCoords == {0, MaxCoord}
Boxes == [1 .. 4 -> BoxCoords]
SegmentationInputs ==
    {Segmentation("absent", <<>>, NoRle, <<>>),
     Segmentation("list", << <<<<0, 0>>, <<1, 0>>, <<1, 1>>>> >>, NoRle, <<>>),
     Segmentation("dict", <<>>,
                  [size |-> SrcSize, counts |-> <<1, SrcSize[1] * SrcSize[2] - 1>>], <<>>),
     Segmentation("other", <<>>, NoRle, <<>>)}
KeywordFlipMaps ==
    {[given |-> FALSE, pairs |-> <<>>],
     [given |-> TRUE, pairs |-> <<>>],
     [given |-> TRUE, pairs |-> << <<1, 2>> >>]}

InitAnnotation ==
    /\ pc = "call"
    /\ annotation \in [bbox : Boxes, bbox_mode : {XYXY_ABS, XYWH_ABS},
                       segmentation : SegmentationInputs, category_id : Labels]
    /\ annotation0 = annotation
    /\ transforms \in TransformLists
    /\ image_size \in Sizes
    /\ parsing_flip_map \in KeywordFlipMaps
    /\ category = Unused /\ flip_map = Unused
    /\ img = Unused /\ gt = Unused /\ img_arg = Unused /\ gt_arg = Unused
    /\ img_arg0 = Unused /\ gt_arg0 = Unused /\ gt0 = Unused
    /\ hflips = Unused /\ target_size = Unused
    /\ person_binary_mask = Unused /\ part_binary_mask = Unused /\ result = Unused

NextAnnotation == transform_parsing_instance_annotations

SpecAnnotation == InitAnnotation /\ [][NextAnnotation]_vars

\* The mask of an RLE annotation after the transforms
TransformedRleMask == TransformListApplySegmentation(transforms, RleDecode(annotation0.segmentation.rle))

\* C1: for an RLE segmentation whose transformed mask has the declared size
\* and a caller-supplied flip map, the call returns normally and category_id
\* is flip_parsing_instance_category(category_id, transforms, parsing_flip_map),
\* as in the polygon branch.
C1_RleBranchFlipsWithParameter ==
    (/\ pc # "call"
     /\ annotation0.segmentation.kind = "dict"
     /\ parsing_flip_map.given
     /\ Shape(TransformedRleMask) = image_size)
    => /\ pc = "returned"
       /\ annotation.category_id =
              flip_parsing_instance_category(annotation0.category_id, transforms,
                                             parsing_flip_map.pairs)

\* C2: when the call returns, bbox_mode is XYXY_ABS and the box lies in
\* [0, width] x [0, height] of image_size = <<height, width>>.
C2_BoxWithinImage ==
    pc = "returned" =>
        /\ annotation.bbox_mode = XYXY_ABS
        /\ 0 <= annotation.bbox[1] /\ annotation.bbox[1] <= image_size[2]
        /\ 0 <= annotation.bbox[3] /\ annotation.bbox[3] <= image_size[2]
        /\ 0 <= annotation.bbox[2] /\ annotation.bbox[2] <= image_size[1]
        /\ 0 <= annotation.bbox[4] /\ annotation.bbox[4] <= image_size[1]

\* a returned call, on an image that is not square, whose XYWH box was flipped
\* and cut down to the image on both axes
C2_Witness ==
    /\ pc = "returned"
    /\ image_size[1] # image_size[2]
    /\ annotation0.bbox_mode = XYWH_ABS
    /\ CountHFlip(transforms) = 1
    /\ LET b == TransformListApplyBox(transforms,
                    BoxModeConvert(annotation0.bbox, annotation0.bbox_mode))
       IN b[3] > image_size[2] /\ b[4] > image_size[1] /\ b[1] < 0
    /\ annotation.bbox = <<0, annotation.bbox[2], image_size[2], image_size[1]>>

\* C6: when the call fails with the ValueError (unsupported segmentation) or
\* the AssertionError (mask shape differs from image_size), the caller's
\* annotation is as it was before the call.
C6_FailureLeavesAnnotationUntouched ==
    pc \in {"ValueError", "AssertionError"} =>
        /\ annotation.bbox = annotation0.bbox
        /\ annotation.bbox_mode = annotation0.bbox_mode
        /\ annotation.segmentation = annotation0.segmentation
        /\ annotation.category_id = annotation0.category_id

(***************************************************************************)
(* flip_parsing_instance_category called on its own                        *)
(***************************************************************************)
CallFlipParsingInstanceCategory ==
    /\ pc = "call"
    /\ result' = flip_parsing_instance_category(category, transforms, flip_map)
    /\ pc' = "returned"
    /\ UNCHANGED <<annotation, annotation0, transforms, image_size, parsing_flip_map,
                   category, flip_map, img, gt, img_arg, gt_arg, img_arg0, gt_arg0, gt0,
                   hflips, target_size, person_binary_mask, part_binary_mask>>

InitCategory ==
    /\ pc = "call"
    /\ category \in Labels
    /\ transforms \in TransformLists
    /\ flip_map \in FlipMaps
    /\ result = Unused
    /\ annotation = Unused /\ annotation0 = Unused /\ image_size = Unused
    /\ parsing_flip_map = Unused
    /\ img = Unused /\ gt = Unused /\ img_arg = Unused /\ gt_arg = Unused
    /\ img_arg0 = Unused /\ gt_arg0 = Unused /\ gt0 = Unused
    /\ hflips = Unused /\ target_size = Unused
    /\ person_binary_mask = Unused /\ part_binary_mask = Unused

NextCategory == CallFlipParsingInstanceCategory

SpecCategory == InitCategory /\ [][NextCategory]_vars

\* the labels of pair i of a flip map
PairLabels(fm, i) == {fm[i][1], fm[i][2]}

\* no label occurs in more than one pair
DisjointPairs(fm) ==
    \A i, j \in 1 .. Len(fm) : i # j => PairLabels(fm, i) \cap PairLabels(fm, j) = {}

\* what the claim says the flip returns for label c: the other side of the
\* pair c is in, c itself when it is in no pair
IsSwapOf(fm, c, r) ==
    /\ \A i \in 1 .. Len(fm) :
          /\ c = fm[i][1] => r = fm[i][2]
          /\ c = fm[i][2] => r = fm[i][1]
    /\ (\A i \in 1 .. Len(fm) : c \notin PairLabels(fm, i)) => r = c

\* C3 as stated: for any flip map, an even number of flips returns the
\* category unchanged and an odd number returns it swapped per the flip map.
C3_AnyFlipMap ==
    pc = "returned" =>
        IF CountHFlip(transforms) % 2 = 0
        THEN result = category
        ELSE IsSwapOf(flip_map, category, result)

\* C3 amended: the same, for flip maps in which no label occurs in more than
\* one pair.
C3_DisjointFlipMap ==
    (pc = "returned" /\ DisjointPairs(flip_map)) =>
        IF CountHFlip(transforms) % 2 = 0
        THEN result = category
        ELSE IsSwapOf(flip_map, category, result)

\* one flip among two transforms, two disjoint pairs, the
\* category on the right of the second pair and swapped to its left
C3_Witness ==
    /\ pc = "returned"
    /\ CountHFlip(transforms) = 1 /\ Len(transforms) = 2
    /\ Len(flip_map) = 2 /\ DisjointPairs(flip_map)
    /\ category = flip_map[2][2] /\ category # flip_map[2][1]
    /\ result = flip_map[2][1]

(***************************************************************************)
(* flip_parsing_semantic_category                                          *)
(***************************************************************************)
IgnoreLabel == 255

\* strides, in items, of a C-ordered array of this shape
CStrides(shape) == <<shape[2], 1>>

\* strides of the view a[:, ::-1] of such an array
ReversedStrides(shape) == <<shape[2], -1>>

\* numpy's C_CONTIGUOUS flag of a 2-D view: an empty array is contiguous,
\* and the stride of an axis of length 1 is not looked at
IsCContiguous(shape, strides) ==
    IF shape[1] = 0 \/ shape[2] = 0 THEN TRUE
    ELSE /\ shape[2] = 1 \/ strides[2] = 1
         /\ shape[1] = 1 \/ strides[1] = shape[2]

\* the two-step overwrite: gt[gt == ori] = new, then gt[gt == new] = ori
SwapPixelTwoStep(v, ori_label, new_label) ==
    IF v = ori_label \/ v = new_label THEN ori_label ELSE v

\* one pass of the loop body on one pixel: left and right are both taken
\* before the two writes, and the write through right comes last
SwapPixel(v, ori_label, new_label) ==
    IF v = new_label THEN ori_label
    ELSE IF v = ori_label THEN new_label
    ELSE v

RECURSIVE SwapLabels(_, _)
\* lines 46-50: the loop over the pairs of the flip map
SwapLabels(a, fm) ==
    IF fm = <<>> THEN a
    ELSE SwapLabels([r \in 1 .. Len(a) |->
                        [c \in 1 .. Len(a[r]) |-> SwapPixel(a[r][c], Head(fm)[1], Head(fm)[2])]],
                    Tail(fm))

\* the call on arrays img_in, gt_in with random.random() = rnd:
\* the pair returned and the contents the arrays passed in are left with
FlipSemantic(img_in, gt_in, fm, prob, rnd) ==
    LET do_hflip == rnd < prob
        view == FlipAxis1(gt_in)
        aliased == IsCContiguous(Shape(gt_in), ReversedStrides(Shape(gt_in)))
        swapped == SwapLabels(view, fm)
    IN IF ~do_hflip
       THEN [do_hflip |-> FALSE, img |-> img_in, gt |-> gt_in,
             img_in |-> img_in, gt_in |-> gt_in]
       ELSE [do_hflip |-> TRUE, img |-> FlipAxis1(img_in), gt |-> swapped,
             img_in |-> img_in,
             \* np.ascontiguousarray copies only what is not contiguous: otherwise
             \* the writes go through the view to the array passed in
             gt_in |-> IF aliased THEN FlipAxis1(swapped) ELSE gt_in]

\* probabilities, and the smallest and a large draw of random.random(), in
\* quarters
Probs == {0, 2, 4}
Draws == {0, 3}

MaxCalls == 2        \* calls in a row, each on the pair the one before returned

flip_parsing_semantic_category ==
    /\ pc \in {"call", "returned"}
    /\ Len(hflips) < MaxCalls
    /\ \E prob \in Probs, rnd \in Draws :
          LET out == FlipSemantic(img, gt, flip_map, prob, rnd)
          IN /\ result' = <<out.img, out.gt>>
             /\ img' = out.img /\ gt' = out.gt
             /\ img_arg0' = img /\ gt_arg0' = gt
             /\ img_arg' = out.img_in /\ gt_arg' = out.gt_in
             /\ hflips' = Append(hflips, out.do_hflip)
    /\ pc' = "returned"
    /\ UNCHANGED <<annotation, annotation0, transforms, image_size, parsing_flip_map,
                   category, flip_map, gt0, target_size, person_binary_mask,
                   part_binary_mask>>

\* the labels of a label map: the part labels, then background and ignore
SemLabelSeq == [i \in 1 .. MaxLabel |-> i] \o <<0, IgnoreLabel>>

\* the label map of a shape: the labels in turn, row by row
LabelMap(shape) ==
    [r \in 1 .. shape[1] |->
        [c \in 1 .. shape[2] |->
            SemLabelSeq[(((r - 1) * shape[2] + (c - 1)) % Len(SemLabelSeq)) + 1]]]

\* the image of a shape: every pixel its own colour
ImageOf(shape) == [r \in 1 .. shape[1] |-> [c \in 1 .. shape[2] |-> <<r, c, 0>>]]

\* the shapes of the flip calls: one pixel, one row, one column, a square
SemanticShapes == {1, MaxSize} \X {1, MaxSize}

InitSemantic ==
    /\ pc = "call"
    /\ \E shape \in SemanticShapes : img = ImageOf(shape) /\ gt = LabelMap(shape)
    /\ flip_map \in FlipMaps
    /\ gt0 = gt
    /\ img_arg = img /\ gt_arg = gt /\ img_arg0 = img /\ gt_arg0 = gt
    /\ hflips = <<>>
    /\ result = Unused
    /\ annotation = Unused /\ annotation0 = Unused /\ transforms = Unused
    /\ image_size = Unused /\ parsing_flip_map = Unused /\ category = Unused
    /\ target_size = Unused /\ person_binary_mask = Unused /\ part_binary_mask = Unused

NextSemantic == flip_parsing_semantic_category

SpecSemantic == InitSemantic /\ [][NextSemantic]_vars

NumFlips == Cardinality({i \in 1 .. Len(hflips) : hflips[i]})

\* every pixel of b is what the claim says the flip makes of that pixel of a
IsSwapOfMap(fm, a, b) ==
    /\ Shape(a) = Shape(b)
    /\ \A r \in 1 .. Len(a) : \A c \in 1 .. Len(a[r]) : IsSwapOf(fm, a[r][c], b[r][c])

\* C5 as stated: for every flip map, one flip swaps the two labels of every
\* pair and leaves the other labels, and two flips return the original map.
C5_AnyFlipMap ==
    /\ (hflips # <<>> /\ hflips[Len(hflips)])
           => IsSwapOfMap(flip_map, gt_arg0, FlipAxis1(result[2]))
    /\ NumFlips = 2 => result[2] = gt0

\* C5 amended: the same, for flip maps in which no label occurs in more than
\* one pair.
C5_DisjointFlipMap ==
    DisjointPairs(flip_map) =>
        /\ (hflips # <<>> /\ hflips[Len(hflips)])
               => IsSwapOfMap(flip_map, gt_arg0, FlipAxis1(result[2]))
        /\ NumFlips = 2 => result[2] = gt0

\* two flips in a row of a map holding every label, under two disjoint
\* pairs of distinct labels: the first flip changed it, the second restored it
C5_Witness ==
    /\ hflips = <<TRUE, TRUE>>
    /\ Len(flip_map) = 2 /\ DisjointPairs(flip_map)
    /\ flip_map[1][1] # flip_map[1][2]
    /\ Shape(gt0) = <<MaxSize, MaxSize>>
    /\ IgnoreLabel \in {gt0[r][c] : r \in 1 .. MaxSize, c \in 1 .. MaxSize}
    /\ FlipAxis1(gt_arg0) # gt0
    /\ result[2] = gt0

\* C9: a call leaves the image and the label map passed in as they were.
C9_InputsNotModified ==
    hflips # <<>> => img_arg = img_arg0 /\ gt_arg = gt_arg0

(***************************************************************************)
(* center_to_target_size                                                   *)
(***************************************************************************)
ImageFill == 128
LabelFill == 255
Channels == 3

\* round half up instead of truncating
IntHalfUp(n) == (n + 1) \div 2

\* int(n / 2): the float quotient truncated towards zero
IntHalf(n) == IF n >= 0 THEN n \div 2 ELSE -((-n) \div 2)

\* the range with its end taken as the last index instead of one past it
RangeOriInclusive(s, t) == <<IntHalf(s - t), IntHalf(s + t) - 1>>

\* range_ori_h, range_ori_w: the part of a source axis of length s kept
RangeOri(s, t) == <<IntHalf(s - t), IntHalf(s + t)>>

\* range_new_h, range_new_w: where a source axis of length s lands in the target
RangeNew(s, t) == <<IntHalf(t - s), IntHalf(s + t)>>

\* np.ones(shape) * fill
Full(rows, cols, fill) == [r \in 1 .. rows |-> [c \in 1 .. cols |-> fill]]

\* a[r0:r1, c0:c1]
Slice2(a, r0, r1, c0, c1) ==
    LET rows == PySlice(a, r0, r1)
    IN [r \in 1 .. Len(rows) |-> PySlice(rows[r], c0, c1)]

\* can src be assigned to dst[r0:r1, c0:c1]: equal shapes, or broadcast from length 1
Assignable(dst, r0, r1, c0, c1, src) ==
    LET region == Shape(Slice2(dst, r0, r1, c0, c1))
    IN /\ Shape(src)[1] \in {region[1], 1}
       /\ Shape(src)[2] \in {region[2], 1}

\* dst[r0:r1, c0:c1] = src
Assign(dst, r0, r1, c0, c1, src) ==
    LET hi_r == Min2(r1, Len(dst))
    IN [r \in 1 .. Len(dst) |->
          LET hi_c == Min2(c1, Len(dst[r]))
          IN [c \in 1 .. Len(dst[r]) |->
                IF r > r0 /\ r <= hi_r /\ c > c0 /\ c <= hi_c
                THEN src[IF Len(src) = 1 THEN 1 ELSE r - r0]
                        [IF Len(src[1]) = 1 THEN 1 ELSE c - c0]
                ELSE dst[r][c]]]

\* one of the two arrays through the four cases; fill is the value of new_image / new_gt
CenterArray(a, tfmd_h, tfmd_w, size, fill) ==
    LET new == Full(size[2], size[1], fill)
        range_ori_h == RangeOri(tfmd_h, size[2])
        range_ori_w == RangeOri(tfmd_w, size[1])
        range_new_h == RangeNew(tfmd_h, size[2])
        range_new_w == RangeNew(tfmd_w, size[1])
        Put(r0, r1, c0, c1, src) ==
            IF Assignable(new, r0, r1, c0, c1, src)
            THEN [pc |-> "returned", a |-> Assign(new, r0, r1, c0, c1, src)]
            ELSE [pc |-> "ValueError", a |-> new]
    IN IF tfmd_h > size[2] /\ tfmd_w > size[1]
       THEN [pc |-> "returned",
             a |-> Slice2(a, range_ori_h[1], range_ori_h[2], range_ori_w[1], range_ori_w[2])]
       ELSE IF tfmd_h > size[2] /\ tfmd_w <= size[1]
       THEN Put(0, size[2], range_new_w[1], range_new_w[2],
                Slice2(a, range_ori_h[1], range_ori_h[2], 0, tfmd_w))
       ELSE IF tfmd_h <= size[2] /\ tfmd_w > size[1]
       THEN Put(range_new_h[1], range_new_h[2], 0, size[1],
                Slice2(a, 0, tfmd_h, range_ori_w[1], range_ori_w[2]))
       ELSE Put(range_new_h[1], range_new_h[2], range_new_w[1], range_new_w[2], a)

center_to_target_size ==
    /\ pc = "call"
    /\ LET tfmd_h == Shape(img)[1]
           tfmd_w == Shape(img)[2]
           new_image == CenterArray(img, tfmd_h, tfmd_w, target_size,
                                    [k \in 1 .. Channels |-> ImageFill])
           new_gt == CenterArray(gt, tfmd_h, tfmd_w, target_size, LabelFill)
       IN IF new_image.pc = "returned" /\ new_gt.pc = "returned"
          THEN pc' = "returned" /\ result' = <<new_image.a, new_gt.a>>
          ELSE pc' = "ValueError" /\ result' = result
    /\ UNCHANGED <<annotation, annotation0, transforms, image_size, parsing_flip_map,
                   category, flip_map, img, gt, img_arg, gt_arg, img_arg0, gt_arg0, gt0,
                   hflips, target_size, person_binary_mask, part_binary_mask>>

\* a label map whose every pixel has its own label
IndexMap(shape) ==
    [r \in 1 .. shape[1] |-> [c \in 1 .. shape[2] |-> (r - 1) * shape[2] + c]]

Sides == 1 .. MaxSide

\* the worked example: a source of height 50 and width 100, target (80, 80)
ExampleShape == <<50, 100>>
ExampleTarget == <<80, 80>>

InitCenter ==
    /\ pc = "call"
    /\ \E shape \in (Sides \X Sides) \cup {ExampleShape} :
          img = ImageOf(shape) /\ gt = IndexMap(shape)
    /\ \/ target_size \in Sides \X Sides /\ Shape(img) # ExampleShape
       \/ target_size = ExampleTarget /\ Shape(img) = ExampleShape
    /\ result = <<>>
    /\ annotation = Unused /\ annotation0 = Unused /\ transforms = Unused
    /\ image_size = Unused /\ parsing_flip_map = Unused /\ category = Unused
    /\ flip_map = Unused /\ img_arg = Unused /\ gt_arg = Unused
    /\ img_arg0 = Unused /\ gt_arg0 = Unused /\ gt0 = Unused /\ hflips = Unused
    /\ person_binary_mask = Unused /\ part_binary_mask = Unused

NextCenter == center_to_target_size

SpecCenter == InitCenter /\ [][NextCenter]_vars

\* shape of an image: rows, columns, channels of its pixels
ImageShape(a) == <<Len(a), Len(a[1]), Len(a[1][1])>>

\* C4: whatever the source and target sizes, the call returns an image of
\* shape (Ht, Wt, 3) and a label map of shape (Ht, Wt).
C4_TargetShape ==
    pc # "call" =>
        /\ pc = "returned"
        /\ ImageShape(result[1]) = <<target_size[2], target_size[1], 3>>
        /\ Shape(result[2]) = <<target_size[2], target_size[1]>>

\* height cropped by an odd difference, width padded by an odd difference
C4_Witness ==
    /\ pc = "returned"
    /\ Shape(img)[1] > target_size[2] /\ (Shape(img)[1] - target_size[2]) % 2 = 1
    /\ Shape(img)[2] < target_size[1] /\ (target_size[1] - Shape(img)[2]) % 2 = 1
    /\ Shape(result[2]) = <<target_size[2], target_size[1]>>

\* the source index output index i of an axis holds, 0 for the fill value
\* (indices from 1): source length s, target length t
SourceIndex(i, s, t) ==
    IF s > t THEN i + ((s - t) \div 2)
    ELSE IF i > ((t - s) \div 2) /\ i <= ((t - s) \div 2) + s THEN i - ((t - s) \div 2)
    ELSE 0

\* C10: per axis, a longer source is cropped from offset floor((s - t)/2), a
\* shorter one is written at offset floor((t - s)/2), and the rest is fill.
C10_CentredPlacement ==
    pc # "call" =>
        /\ pc = "returned"
        /\ \A i \in 1 .. target_size[2] : \A j \in 1 .. target_size[1] :
              LET r == SourceIndex(i, Shape(img)[1], target_size[2])
                  c == SourceIndex(j, Shape(img)[2], target_size[1])
              IN IF r = 0 \/ c = 0
                 THEN /\ result[1][i][j] = <<ImageFill, ImageFill, ImageFill>>
                      /\ result[2][i][j] = LabelFill
                 ELSE /\ result[1][i][j] = img[r][c]
                      /\ result[2][i][j] = gt[r][c]

\* the worked example: source columns [10, 90) in output rows [15, 65)
C10_Witness ==
    /\ pc = "returned"
    /\ Shape(img) = ExampleShape /\ target_size = ExampleTarget
    /\ result[2][16][1] = gt[1][11] /\ result[2][65][80] = gt[50][90]
    /\ result[2][15][1] = LabelFill /\ result[2][66][80] = LabelFill

(***************************************************************************)
(* compute_parsing_IoP and the pycocotools calls it makes                  *)
(***************************************************************************)
\* the mask in column-major (Fortran) order
ColumnMajor(mask) ==
    LET h == Len(mask)
        w == Len(mask[1])
    IN [k \in 1 .. h * w |-> mask[((k - 1) % h) + 1][((k - 1) \div h) + 1]]

RECURSIVE RunLengths(_, _, _, _)
\* rleEncode: the lengths of the runs of bits from position k on, the run in
\* progress holding c pixels of value p
RunLengths(bits, k, p, c) ==
    IF k > Len(bits) THEN <<c>>
    ELSE IF bits[k] # p THEN <<c>> \o RunLengths(bits, k + 1, bits[k], 1)
    ELSE RunLengths(bits, k + 1, p, c + 1)

RECURSIVE CharsOf(_)
\* rleToString: one number as 5-bit groups, low group first, bit 0x20 set on
\* every group but the last, each group offset by 48
CharsOf(x) ==
    LET c == x % 32
        rest == x \div 32
        more == IF c >= 16 THEN rest # -1 ELSE rest # 0
    IN IF more THEN <<c + 32 + 48>> \o CharsOf(rest) ELSE <<c + 48>>

RECURSIVE RleToString(_, _)
\* rleToString: from the fourth count on, the difference to the count two before
RleToString(cnts, i) ==
    IF i > Len(cnts) THEN <<>>
    ELSE CharsOf(IF i > 3 THEN cnts[i] - cnts[i - 2] ELSE cnts[i]) \o RleToString(cnts, i + 1)

Pow32(k) == IF k = 0 THEN 1 ELSE IF k = 1 THEN 32 ELSE IF k = 2 THEN 1024 ELSE 32768

RECURSIVE RleFrString(_, _, _, _, _)
\* rleFrString: the counts read back from position p of the string; x and k
\* are the number in progress and its groups read so far
RleFrString(str, p, x, k, cnts) ==
    IF p > Len(str) THEN cnts
    ELSE LET c == str[p] - 48
             x1 == x + (c % 32) * Pow32(k)
             more == (c \div 32) % 2 = 1
             x2 == IF ~more /\ (c \div 16) % 2 = 1 THEN x1 - Pow32(k + 1) ELSE x1
             x3 == IF Len(cnts) > 2 THEN x2 + cnts[Len(cnts) - 1] ELSE x2
         IN IF more THEN RleFrString(str, p + 1, x1, k + 1, cnts)
            ELSE RleFrString(str, p + 1, 0, 0, Append(cnts, x3))

\* mask_util.encode(np.array(mask[:, :, None], order="F", dtype="uint8"))[0],
\* its counts then decoded from bytes to str
MaskEncode(mask) ==
    [size |-> Shape(mask),
     counts |-> RleToString(RunLengths(ColumnMajor(mask), 1, 0, 0), 1)]

RECURSIVE SumOdd(_, _)
SumOdd(cnts, j) == IF j > Len(cnts) THEN 0 ELSE cnts[j] + SumOdd(cnts, j + 2)

\* maskUtils.area(rle): the runs of ones are every second run
RleArea(rle) == SumOdd(RleFrString(rle.counts, 1, 0, 0, <<>>), 2)

RECURSIVE MergeLoop(_, _, _, _)
\* rleMerge of two masks: the while loop; st holds ca, cb, va, vb, v, a, b, cc
MergeLoop(A, B, intersect, st) ==
    LET c == Min2(st.ca, st.cb)
        cc == st.cc + c
        adv_a == st.ca - c = 0 /\ st.a <= Len(A)
        ca == IF adv_a THEN A[st.a] ELSE st.ca - c
        va == IF adv_a THEN ~st.va ELSE st.va
        a == IF adv_a THEN st.a + 1 ELSE st.a
        adv_b == st.cb - c = 0 /\ st.b <= Len(B)
        cb == IF adv_b THEN B[st.b] ELSE st.cb - c
        vb == IF adv_b THEN ~st.vb ELSE st.vb
        b == IF adv_b THEN st.b + 1 ELSE st.b
        ct == ca + cb
        v == IF intersect THEN va /\ vb ELSE va \/ vb
        emit == v # st.v \/ ct = 0
        out == IF emit THEN <<cc>> ELSE <<>>
        next == [ca |-> ca, cb |-> cb, va |-> va, vb |-> vb, v |-> v, a |-> a, b |-> b,
                 cc |-> IF emit THEN 0 ELSE cc]
    IN IF ct > 0 THEN out \o MergeLoop(A, B, intersect, next) ELSE out

\* maskUtils.merge([R1, R2], intersect)
RleMerge(R1, R2, intersect) ==
    LET A == RleFrString(R1.counts, 1, 0, 0, <<>>)
        B == RleFrString(R2.counts, 1, 0, 0, <<>>)
    IN IF R1.size # R2.size THEN [size |-> <<0, 0>>, counts |-> <<>>]
       ELSE [size |-> R1.size,
             counts |-> RleToString(
                 MergeLoop(A, B, intersect,
                           [ca |-> A[1], cb |-> B[1], va |-> FALSE, vb |-> FALSE,
                            v |-> FALSE, a |-> 2, b |-> 2, cc |-> 0]), 1)]

\* the merge that takes the union
MergeUnion(person, part) == RleMerge(person, part, FALSE)

\* maskUtils.merge([person, part], True)
MergeIntersect(person, part) == RleMerge(person, part, TRUE)

RECURSIVE GCD(_, _)
GCD(a, b) == IF b = 0 THEN a ELSE GCD(b, a % b)

\* the float quotient of two uint32 numbers: nan for 0/0, inf for n/0, else
\* the quotient, held as the fraction in lowest terms it is the rounding of
TrueDivide(n, d) ==
    IF d = 0 THEN [kind |-> IF n = 0 THEN "nan" ELSE "inf", num |-> 0, den |-> 0]
    ELSE [kind |-> "finite", num |-> n \div GCD(n, d), den |-> d \div GCD(n, d)]

IoP(person_mask, part_mask) ==
    LET person == MaskEncode(person_mask)
        part == MaskEncode(part_mask)
        area_part == RleArea(part)
        i == RleArea(MergeIntersect(person, part))
    IN TrueDivide(i, area_part)

compute_parsing_IoP ==
    /\ pc = "call"
    /\ result' = IoP(person_binary_mask, part_binary_mask)
    /\ pc' = "returned"
    /\ UNCHANGED <<annotation, annotation0, transforms, image_size, parsing_flip_map,
                   category, flip_map, img, gt, img_arg, gt_arg, img_arg0, gt_arg0, gt0,
                   hflips, target_size, person_binary_mask, part_binary_mask>>

MaskShapes == {s \in (1 .. MaxMaskPixels) \X (1 .. MaxMaskPixels) : s[1] * s[2] <= MaxMaskPixels}
Masks(shape) == [1 .. shape[1] -> [1 .. shape[2] -> {0, 1}]]

InitIoP ==
    /\ pc = "call"
    /\ \E shape \in MaskShapes :
          person_binary_mask \in Masks(shape) /\ part_binary_mask \in Masks(shape)
    /\ result = Unused
    /\ annotation = Unused /\ annotation0 = Unused /\ transforms = Unused
    /\ image_size = Unused /\ parsing_flip_map = Unused /\ category = Unused
    /\ flip_map = Unused /\ img = Unused /\ gt = Unused /\ img_arg = Unused
    /\ gt_arg = Unused /\ img_arg0 = Unused /\ gt_arg0 = Unused /\ gt0 = Unused
    /\ hflips = Unused /\ target_size = Unused

NextIoP == compute_parsing_IoP

SpecIoP == InitIoP /\ [][NextIoP]_vars

\* the pixels set in a mask
Ones(mask) == {rc \in (1 .. Len(mask)) \X (1 .. Len(mask[1])) : mask[rc[1]][rc[2]] = 1}

\* what the claim says the call returns
IoPAsClaimed ==
    /\ result.kind = "finite"
    /\ result.num * Cardinality(Ones(part_binary_mask)) =
           Cardinality(Ones(person_binary_mask) \cap Ones(part_binary_mask)) * result.den
    /\ person_binary_mask = part_binary_mask => result.num = 1 /\ result.den = 1
    /\ Ones(person_binary_mask) \cap Ones(part_binary_mask) = {}
           => result.num = 0 /\ result.den = 1

\* C7 as stated: for every pair of same-shape masks the result is
\* |person AND part| / |part|, 1.0 for identical masks, 0.0 for disjoint masks.
C7_AnyMasks == pc = "returned" => IoPAsClaimed

\* C7 amended: the same, for every pair whose part mask has a pixel set.
C7_NonEmptyPart ==
    (pc = "returned" /\ Ones(part_binary_mask) # {}) => IoPAsClaimed

\* a part mask of three pixels of which the person mask covers two
C7_Witness ==
    /\ pc = "returned"
    /\ Cardinality(Ones(part_binary_mask)) = 3
    /\ Cardinality(Ones(person_binary_mask) \cap Ones(part_binary_mask)) = 2
    /\ result = [kind |-> "finite", num |-> 2, den |-> 3]

(***************************************************************************)
(* Floating point.  A natural number of any size is the sequence of its    *)
(* digits in base 2^15, lowest first, without leading zeros; a float is    *)
(* m * 2^e with m a natural number of exactly the mantissa's bits.         *)
(***************************************************************************)
Base == 2 ^ 15
DoubleBits == 53     \* mantissa of a Python float / np.float64
SingleBits == 24     \* mantissa of a float32 tensor element

RECURSIVE BNorm(_)
BNorm(x) ==
    IF x = <<>> THEN x
    ELSE IF x[Len(x)] = 0 THEN BNorm(SubSeq(x, 1, Len(x) - 1)) ELSE x

RECURSIVE BFromInt(_)
BFromInt(n) == IF n = 0 THEN <<>> ELSE <<n % Base>> \o BFromInt(n \div Base)

Limb(x, i) == IF i <= Len(x) THEN x[i] ELSE 0

RECURSIVE BAddFrom(_, _, _, _)
BAddFrom(x, y, i, carry) ==
    IF i > Len(x) /\ i > Len(y)
    THEN (IF carry = 0 THEN <<>> ELSE <<carry>>)
    ELSE LET t == Limb(x, i) + Limb(y, i) + carry
         IN <<t % Base>> \o BAddFrom(x, y, i + 1, t \div Base)

BAdd(x, y) == BAddFrom(x, y, 1, 0)

RECURSIVE BSubFrom(_, _, _, _)
BSubFrom(x, y, i, borrow) ==
    IF i > Len(x) THEN <<>>
    ELSE LET t == Limb(x, i) - Limb(y, i) - borrow
         IN <<t % Base>> \o BSubFrom(x, y, i + 1, IF t < 0 THEN 1 ELSE 0)

\* x - y for x >= y
BSub(x, y) == BNorm(BSubFrom(x, y, 1, 0))

RECURSIVE BCmpFrom(_, _, _)
BCmpFrom(x, y, i) ==
    IF i = 0 THEN 0
    ELSE IF x[i] < y[i] THEN -1
    ELSE IF x[i] > y[i] THEN 1
    ELSE BCmpFrom(x, y, i - 1)

\* -1, 0, 1 as x <, =, > y
BCmp(x, y) ==
    IF Len(x) < Len(y) THEN -1
    ELSE IF Len(x) > Len(y) THEN 1
    ELSE BCmpFrom(x, y, Len(x))

RECURSIVE BMulFrom(_, _, _, _)
BMulFrom(x, k, i, carry) ==
    IF i > Len(x) THEN BFromInt(carry)
    ELSE LET t == x[i] * k + carry
         IN <<t % Base>> \o BMulFrom(x, k, i + 1, t \div Base)

\* x * k for 0 <= k < Base
BMulSmall(x, k) == BNorm(BMulFrom(x, k, 1, 0))

\* x * 2^n
BShl(x, n) ==
    IF x = <<>> THEN x
    ELSE [i \in 1 .. n \div 15 |-> 0] \o BMulSmall(x, 2 ^ (n % 15))

RECURSIVE IntBitLen(_)
IntBitLen(n) == IF n = 0 THEN 0 ELSE 1 + IntBitLen(n \div 2)

BBitLen(x) == IF x = <<>> THEN 0 ELSE 15 * (Len(x) - 1) + IntBitLen(x[Len(x)])

BIsOdd(x) == Limb(x, 1) % 2 = 1

RECURSIVE BDigit(_, _, _, _)
\* the largest d below Base with q * d <= r, found bit by bit from the top
BDigit(r, q, d, bit) ==
    IF bit < 0 THEN d
    ELSE IF BCmp(BMulSmall(q, d + 2 ^ bit), r) <= 0
    THEN BDigit(r, q, d + 2 ^ bit, bit - 1)
    ELSE BDigit(r, q, d, bit - 1)

\* one step of the long division: the digit p[i] brought down
BDivStep(p, q, i, quot, rem) ==
    CHOOSE out \in {[quot |-> <<d>> \o quot, rem |-> BSub(BNorm(<<p[i]>> \o rem), BMulSmall(q, d))] :
                       d \in {BDigit(BNorm(<<p[i]>> \o rem), q, 0, 14)}} : TRUE

RECURSIVE BDivLoop(_, _, _, _, _)
\* long division in base 2^15, from the top digit of p down
BDivLoop(p, q, i, quot, rem) ==
    IF i = 0 THEN [quot |-> BNorm(quot), rem |-> rem]
    ELSE CHOOSE out \in {BDivLoop(p, q, i - 1, n.quot, n.rem) :
                            n \in {BDivStep(p, q, i, quot, rem)}} : TRUE

\* quotient and remainder of p by q > 0
BDivMod(p, q) ==
    CHOOSE out \in {BDivLoop(pv, qv, Len(pv), <<>>, <<>>) : pv \in {p}, qv \in {q}} : TRUE

RECURSIVE BMulFromLimb(_, _, _)
BMulFromLimb(x, y, j) ==
    IF j > Len(y) THEN <<>>
    ELSE BAdd([i \in 1 .. j - 1 |-> 0] \o BMulFrom(x, y[j], 1, 0), BMulFromLimb(x, y, j + 1))

\* x * y
BMul(x, y) == CHOOSE out \in {BNorm(BMulFromLimb(xv, yv, 1)) : xv \in {x}, yv \in {y}} : TRUE

\* the quotient of p * 2^s by q rounded to the nearest integer, ties to even,
\* as the float it is when it has `bits` bits: m * 2^(e - s)
RoundQuotient(d, den, e, bits, s) ==
    LET twice == BCmp(BShl(d.rem, 1), den)
        up == twice > 0 \/ (twice = 0 /\ BIsOdd(d.quot))
        m == IF up THEN BAdd(d.quot, <<1>>) ELSE d.quot
    IN IF BBitLen(m) > bits
       THEN [m |-> BShl(<<1>>, bits - 1), e |-> e - s + 1]
       ELSE [m |-> m, e |-> e - s]

\* the division of p * 2^s by q
ScaledDivMod(p, q, s) ==
    BDivMod(BShl(p, IF s > 0 THEN s ELSE 0), BShl(q, IF s < 0 THEN -s ELSE 0))

\* (p / q) * 2^e rounded to a mantissa of `bits` bits, ties to even; p, q > 0.
\* The scale s0 gives a quotient of `bits` bits or one more; with one more
\* the division is made again one bit shorter.
Round(p, q, e, bits) ==
    CHOOSE out \in
        {IF BBitLen(d0.quot) > bits
         THEN RoundQuotient(ScaledDivMod(pv, qv, s0 - 1),
                            BShl(qv, IF s0 - 1 < 0 THEN 1 - s0 ELSE 0), e, bits, s0 - 1)
         ELSE RoundQuotient(d0, BShl(qv, IF s0 < 0 THEN -s0 ELSE 0), e, bits, s0) :
            pv \in {p}, qv \in {q},
            s0 \in {bits + BBitLen(q) - BBitLen(p)},
            d0 \in {ScaledDivMod(p, q, bits + BBitLen(q) - BBitLen(p))}} : TRUE

\* the float of a positive integer
FloatOf(n) == Round(BFromInt(n), <<1>>, 0, DoubleBits)

\* x * y and x / y in float64
FMul(x, y) ==
    CHOOSE out \in {Round(BMul(xv.m, yv.m), <<1>>, xv.e + yv.e, DoubleBits) :
                       xv \in {x}, yv \in {y}} : TRUE
FDiv(x, y) ==
    CHOOSE out \in {Round(xv.m, yv.m, xv.e - yv.e, DoubleBits) : xv \in {x}, yv \in {y}} : TRUE

\* a float64 stored in a float32 tensor
ToSingle(x) == CHOOSE out \in {Round(xv.m, <<1>>, xv.e, SingleBits) : xv \in {x}} : TRUE

\* x < y for positive floats of the same mantissa width
FLess(x, y) == x.e < y.e \/ (x.e = y.e /\ BCmp(x.m, y.m) < 0)

(***************************************************************************)
(* affine_to_target_size and change_aspect_ratio                           *)
(***************************************************************************)
\* the branches taken the other way round: the longer side is cut down
ChangeAspectRatioShrinking(w, h, aspect_ratio) ==
    CHOOSE out \in
        {IF FLess(t, w) THEN [w |-> FMul(h, aspect_ratio), h |-> h]
         ELSE IF FLess(w, t) THEN [w |-> w, h |-> FDiv(FMul(w, FloatOf(1)), aspect_ratio)]
         ELSE [w |-> w, h |-> h] : t \in {FMul(aspect_ratio, h)}} : TRUE

change_aspect_ratio(w, h, aspect_ratio) ==
    CHOOSE out \in
        {IF FLess(t, w) THEN [w |-> w, h |-> FDiv(FMul(w, FloatOf(1)), aspect_ratio)]
         ELSE IF FLess(w, t) THEN [w |-> FMul(h, aspect_ratio), h |-> h]
         ELSE [w |-> w, h |-> h] : t \in {FMul(aspect_ratio, h)}} : TRUE

\* lines 152-161 for a source of org_h by org_w: the (w, h) change_aspect_ratio
\* returns and the same two as elements of the float32 tensor bbox
AffineBox(org_w, org_h, size) ==
    CHOOSE out \in
        {[w |-> wh.w, h |-> wh.h, bbox_w |-> ToSingle(wh.w), bbox_h |-> ToSingle(wh.h)] :
            wh \in {change_aspect_ratio(w, h, aspect_ratio) :
                      w \in {FloatOf(org_w)}, h \in {FloatOf(org_h)},
                      aspect_ratio \in {FDiv(FloatOf(size[1]), FloatOf(size[2]))}}} : TRUE

\* the call up to the box handed to get_affine_transform; the warp itself is
\* OpenCV's
affine_to_target_size ==
    /\ pc = "call"
    /\ IF Shape(img) # Shape(gt)
       THEN pc' = "AssertionError" /\ result' = result
       ELSE /\ pc' = "returned"
            /\ result' = AffineBox(Shape(img)[2], Shape(img)[1], target_size)
    /\ UNCHANGED <<annotation, annotation0, transforms, image_size, parsing_flip_map,
                   category, flip_map, img, gt, img_arg, gt_arg, img_arg0, gt_arg0, gt0,
                   hflips, target_size, person_binary_mask, part_binary_mask>>

InitAffine ==
    /\ pc = "call"
    /\ \E shape \in Sides \X Sides :
          /\ img = ImageOf(shape)
          /\ gt \in {IndexMap(shape), IndexMap(<<shape[1], (shape[2] % MaxSide) + 1>>)}
    /\ target_size \in Sides \X Sides
    /\ result = Unused
    /\ annotation = Unused /\ annotation0 = Unused /\ transforms = Unused
    /\ image_size = Unused /\ parsing_flip_map = Unused /\ category = Unused
    /\ flip_map = Unused /\ img_arg = Unused /\ gt_arg = Unused
    /\ img_arg0 = Unused /\ gt_arg0 = Unused /\ gt0 = Unused /\ hflips = Unused
    /\ person_binary_mask = Unused /\ part_binary_mask = Unused

NextAffine == affine_to_target_size

SpecAffine == InitAffine /\ [][NextAffine]_vars

\* x * a and y * b as integers over the common power of two of x and y
CrossLeft(x, a, y, b) == BShl(BMulSmall(x.m, a), x.e - Min2(x.e, y.e))
CrossRight(x, a, y, b) == BShl(BMulSmall(y.m, b), y.e - Min2(x.e, y.e))

\* x * a = y * b exactly
CrossEqual(x, a, y, b) == BCmp(CrossLeft(x, a, y, b), CrossRight(x, a, y, b)) = 0

\* |x * a - y * b| <= 2^-k * (y * b)
CrossWithin(x, a, y, b, k) ==
    LET l == CrossLeft(x, a, y, b)
        r == CrossRight(x, a, y, b)
        diff == IF BCmp(l, r) >= 0 THEN BSub(l, r) ELSE BSub(r, l)
    IN BCmp(BShl(diff, k), r) <= 0

\* the relative tolerances of the amended C8: float64 and float32
DoubleTolerance == DoubleBits - 3
SingleTolerance == SingleBits - 2

\* w' >= w and h' >= h with one of the two equal to the source value
EnlargedOnly(w2, h2, w, h) ==
    /\ ~FLess(w2, w)
    /\ ~FLess(h2, h)
    /\ (w2 = w \/ h2 = h)

\* w' / h' = W / H, or w' * H = h' * W, as float64 arithmetic evaluates them
RatioEqual(w2, h2, size) ==
    \/ FDiv(w2, h2) = FDiv(FloatOf(size[1]), FloatOf(size[2]))
    \/ FMul(w2, FloatOf(size[2])) = FMul(h2, FloatOf(size[1]))

\* C8 as stated: for every source (w, h) and target (W, H) the adjusted
\* (w', h') satisfies w' / h' == W / H (equivalently w' * H == h' * W), with
\* w' >= w, h' >= h and one of the two left at the source value.
C8_ExactRatio ==
    pc = "returned" =>
        /\ RatioEqual(result.w, result.h, target_size)
        /\ EnlargedOnly(result.w, result.h,
                        FloatOf(Shape(img)[2]), FloatOf(Shape(img)[1]))

\* C8 amended: the (w', h') change_aspect_ratio returns satisfies
\* |w' * H - h' * W| <= 2^-50 * h' * W, and as stored in the float32 bbox
\* 2^-22 * h' * W; in both widths w' >= w, h' >= h and one of the two is the
\* source value.
C8_RatioWithinTolerance ==
    pc = "returned" =>
        /\ CrossWithin(result.w, target_size[2], result.h, target_size[1], DoubleTolerance)
        /\ CrossWithin(result.bbox_w, target_size[2], result.bbox_h, target_size[1],
                       SingleTolerance)
        /\ EnlargedOnly(result.w, result.h,
                        FloatOf(Shape(img)[2]), FloatOf(Shape(img)[1]))
        /\ EnlargedOnly(result.bbox_w, result.bbox_h,
                        ToSingle(FloatOf(Shape(img)[2])), ToSingle(FloatOf(Shape(img)[1])))

\* a call that widened the box to a width whose ratio to the height is not
\* the target's, neither as a quotient nor cross-multiplied
C8_Witness ==
    /\ pc = "returned"
    /\ result.w # FloatOf(Shape(img)[2])
    /\ result.h = FloatOf(Shape(img)[1])
    /\ ~RatioEqual(result.w, result.h, target_size)
    /\ ~CrossEqual(result.w, target_size[2], result.h, target_size[1])

====
